---- MODULE Spec2Model ----
(***************************************************************************)
(* Sentiment analysis servers of imdb-model: the two lexicon servers       *)
(* (simple_flask_api, simple_fastapi_api) and the two model servers        *)
(* (flask_api, fastapi_api).                                               *)
(*                                                                         *)
(* A text is a sequence of one-character strings.  A JSON value that a     *)
(* Flask handler reads from the request body is a record with a "type"     *)
(* field, so that non-string items (numbers, null) can be sent as well.    *)
(* A Python dict is a record whose field names are the dict's keys.        *)
(* Confidences are in hundredths: 50 is 0.5, 95 is 0.95.  The floating     *)
(* point sums 0.6 + d*0.1 of the source are the doubles 0.7, 0.8, 0.9 for  *)
(* d = 1, 2, 3 and are at least 1.0 for d >= 4, so the integer arithmetic  *)
(* below gives the same results as the source's min(...).                  *)
(*                                                                         *)
(* calls holds the texts the handler of the current request passed to the  *)
(* scoring function and returned what the function returned for each;      *)
(* clock is the reading of datetime.now(); earlier is a history variable   *)
(* that keeps one call of the scoring function of an earlier request.      *)
(***************************************************************************)
EXTENDS Integers, Sequences, FiniteSets, TLC

VARIABLES program, phase, model, vectorizer, preprocessing_functions, metadata,
          classifier, request, response, calls, returned, clock, earlier

vars == <<program, phase, model, vectorizer, preprocessing_functions, metadata,
          classifier, request, response, calls, returned, clock, earlier>>

(***************************************************************************)
(* Bounds of the model.                                                    *)
(***************************************************************************)
MaxPieces == 3
MaxRun == 5
MaxBatch == 3
MaxClock == 1

(***************************************************************************)
(* Characters and the Python string operations the servers use.            *)
(***************************************************************************)
UpperCase == <<"A","B","C","D","E","F","G","H","I","J","K","L","M",
               "N","O","P","Q","R","S","T","U","V","W","X","Y","Z">>
LowerCase == <<"a","b","c","d","e","f","g","h","i","j","k","l","m",
               "n","o","p","q","r","s","t","u","v","w","x","y","z">>
Digits == {"0","1","2","3","4","5","6","7","8","9"}

Range(s) == { s[i] : i \in DOMAIN s }

\* \s of the regular expression, and the characters str.strip() and
\* str.split() treat as whitespace
IsSpace(c) == c \in {" ", "\t", "\n", "\r"}

\* \w of the regular expression
IsWord(c) == c \in Range(UpperCase) \cup Range(LowerCase) \cup Digits \cup {"_"}

LowerChar(c) ==
    IF c \in Range(UpperCase)
    THEN LowerCase[CHOOSE i \in DOMAIN UpperCase : UpperCase[i] = c]
    ELSE c

\* str.lower()
lower(s) == [i \in DOMAIN s |-> LowerChar(s[i])]

\* re.sub(r'[^\w\s]', '', s)
re_sub(s) == SelectSeq(s, LAMBDA c : IsWord(c) \/ IsSpace(c))

RECURSIVE lstrip(_)
lstrip(s) == IF s # <<>> /\ IsSpace(Head(s)) THEN lstrip(Tail(s)) ELSE s

RECURSIVE rstrip(_)
rstrip(s) ==
    IF s # <<>> /\ IsSpace(s[Len(s)]) THEN rstrip(SubSeq(s, 1, Len(s) - 1)) ELSE s

\* str.strip()
strip(s) == rstrip(lstrip(s))

\* str.split(): the maximal runs of non-whitespace characters, in order
RECURSIVE split_from(_, _)
split_from(s, i) ==
    IF i > Len(s)
    THEN <<>>
    ELSE IF IsSpace(s[i])
    THEN split_from(s, i + 1)
    ELSE LET stops == { j \in i..Len(s) : j = Len(s) \/ IsSpace(s[j + 1]) }
             last == CHOOSE j \in stops : \A k \in stops : j <= k
         IN  <<SubSeq(s, i, last)>> \o split_from(s, last + 1)

split(s) == split_from(s, 1)

\* sum(1 for word in words if word in word_list)
count_in(words, word_list) == Len(SelectSeq(words, LAMBDA w : w \in word_list))

\* min(a, b)
min(a, b) == IF a <= b THEN a ELSE b

(***************************************************************************)
(* The word lists of the two lexicon servers.                              *)
(***************************************************************************)
positive_words_flask ==
    { <<"g","o","o","d">>,
       <<"g","r","e","a","t">>,
       <<"e","x","c","e","l","l","e","n","t">>,
       <<"a","m","a","z","i","n","g">>,
       <<"w","o","n","d","e","r","f","u","l">>,
       <<"f","a","n","t","a","s","t","i","c">>,
       <<"a","w","e","s","o","m","e">>,
       <<"b","r","i","l","l","i","a","n","t">>,
       <<"o","u","t","s","t","a","n","d","i","n","g">>,
       <<"s","u","p","e","r","b">>,
       <<"p","e","r","f","e","c","t">>,
       <<"l","o","v","e">>,
       <<"l","i","k","e">>,
       <<"e","n","j","o","y">>,
       <<"h","a","p","p","y">>,
       <<"p","l","e","a","s","e","d">>,
       <<"s","a","t","i","s","f","i","e","d">>,
       <<"i","m","p","r","e","s","s","i","v","e">>,
       <<"r","e","m","a","r","k","a","b","l","e">>,
       <<"s","p","e","c","t","a","c","u","l","a","r">>,
       <<"m","a","r","v","e","l","o","u","s">>,
       <<"t","e","r","r","i","f","i","c">>,
       <<"i","n","c","r","e","d","i","b","l","e">> }
negative_words_flask ==
    { <<"b","a","d">>,
       <<"t","e","r","r","i","b","l","e">>,
       <<"a","w","f","u","l">>,
       <<"h","o","r","r","i","b","l","e">>,
       <<"d","i","s","g","u","s","t","i","n","g">>,
       <<"h","a","t","e">>,
       <<"d","i","s","l","i","k","e">>,
       <<"b","o","r","i","n","g">>,
       <<"d","u","l","l">>,
       <<"d","i","s","a","p","p","o","i","n","t","i","n","g">>,
       <<"p","o","o","r">>,
       <<"w","o","r","s","t">>,
       <<"p","a","t","h","e","t","i","c">>,
       <<"u","s","e","l","e","s","s">>,
       <<"a","n","n","o","y","i","n","g">>,
       <<"f","r","u","s","t","r","a","t","i","n","g">>,
       <<"s","a","d">>,
       <<"a","n","g","r","y">>,
       <<"u","p","s","e","t">>,
       <<"d","e","p","r","e","s","s","i","n","g">>,
       <<"m","e","d","i","o","c","r","e">>,
       <<"u","n","i","n","s","p","i","r","i","n","g">>,
       <<"i","n","a","d","e","q","u","a","t","e">> }
positive_words_fastapi ==
    { <<"g","o","o","d">>,
       <<"g","r","e","a","t">>,
       <<"e","x","c","e","l","l","e","n","t">>,
       <<"a","m","a","z","i","n","g">>,
       <<"w","o","n","d","e","r","f","u","l">>,
       <<"f","a","n","t","a","s","t","i","c">>,
       <<"a","w","e","s","o","m","e">>,
       <<"b","r","i","l","l","i","a","n","t">>,
       <<"o","u","t","s","t","a","n","d","i","n","g">>,
       <<"s","u","p","e","r","b">>,
       <<"p","e","r","f","e","c","t">>,
       <<"l","o","v","e">>,
       <<"l","i","k","e">>,
       <<"e","n","j","o","y">>,
       <<"h","a","p","p","y">>,
       <<"p","l","e","a","s","e","d">>,
       <<"s","a","t","i","s","f","i","e","d">>,
       <<"i","m","p","r","e","s","s","i","v","e">>,
       <<"r","e","m","a","r","k","a","b","l","e">>,
       <<"s","p","e","c","t","a","c","u","l","a","r">>,
       <<"m","a","r","v","e","l","o","u","s">>,
       <<"t","e","r","r","i","f","i","c">>,
       <<"i","n","c","r","e","d","i","b","l","e">>,
       <<"b","e","s","t">>,
       <<"f","a","v","o","r","i","t","e">>,
       <<"r","e","c","o","m","m","e","n","d">>,
       <<"e","n","j","o","y","a","b","l","e">>,
       <<"e","n","t","e","r","t","a","i","n","i","n","g">> }
negative_words_fastapi ==
    { <<"b","a","d">>,
       <<"t","e","r","r","i","b","l","e">>,
       <<"a","w","f","u","l">>,
       <<"h","o","r","r","i","b","l","e">>,
       <<"d","i","s","g","u","s","t","i","n","g">>,
       <<"h","a","t","e">>,
       <<"d","i","s","l","i","k","e">>,
       <<"b","o","r","i","n","g">>,
       <<"d","u","l","l">>,
       <<"d","i","s","a","p","p","o","i","n","t","i","n","g">>,
       <<"p","o","o","r">>,
       <<"w","o","r","s","t">>,
       <<"p","a","t","h","e","t","i","c">>,
       <<"u","s","e","l","e","s","s">>,
       <<"a","n","n","o","y","i","n","g">>,
       <<"f","r","u","s","t","r","a","t","i","n","g">>,
       <<"s","a","d">>,
       <<"a","n","g","r","y">>,
       <<"u","p","s","e","t">>,
       <<"d","e","p","r","e","s","s","i","n","g">>,
       <<"m","e","d","i","o","c","r","e">>,
       <<"u","n","i","n","s","p","i","r","i","n","g">>,
       <<"i","n","a","d","e","q","u","a","t","e">>,
       <<"w","a","s","t","e">>,
       <<"s","t","u","p","i","d">>,
       <<"r","i","d","i","c","u","l","o","u","s">>,
       <<"p","o","i","n","t","l","e","s","s">>,
       <<"c","o","n","f","u","s","i","n","g">> }

(***************************************************************************)
(* simple_sentiment_analysis, the lexicon scorer of each lexicon server.   *)
(***************************************************************************)
\* faulty variant: a tie of the counts is reported as positive
simple_sentiment_analysis_tie_positive(text) ==
    LET cleaned == re_sub(lower(text))
        words == split(cleaned)
        positive_count == count_in(words, positive_words_flask)
        negative_count == count_in(words, negative_words_flask)
    IN  IF positive_count >= negative_count
        THEN [sentiment |-> "positive",
              confidence |-> min(60 + (positive_count - negative_count) * 10, 95),
              positive_words_found |-> positive_count,
              negative_words_found |-> negative_count]
        ELSE IF negative_count > positive_count
        THEN [sentiment |-> "negative",
              confidence |-> min(60 + (negative_count - positive_count) * 10, 95),
              positive_words_found |-> positive_count,
              negative_words_found |-> negative_count]
        ELSE [sentiment |-> "neutral",
              confidence |-> 50,
              positive_words_found |-> positive_count,
              negative_words_found |-> negative_count]

\* faulty variant: the confidence is capped at 1.0 in place of 0.95
simple_sentiment_analysis_cap_one(text) ==
    LET cleaned == re_sub(lower(text))
        words == split(cleaned)
        positive_count == count_in(words, positive_words_flask)
        negative_count == count_in(words, negative_words_flask)
    IN  IF positive_count > negative_count
        THEN [sentiment |-> "positive",
              confidence |-> min(60 + (positive_count - negative_count) * 10, 100),
              positive_words_found |-> positive_count,
              negative_words_found |-> negative_count]
        ELSE IF negative_count > positive_count
        THEN [sentiment |-> "negative",
              confidence |-> min(60 + (negative_count - positive_count) * 10, 100),
              positive_words_found |-> positive_count,
              negative_words_found |-> negative_count]
        ELSE [sentiment |-> "neutral",
              confidence |-> 50,
              positive_words_found |-> positive_count,
              negative_words_found |-> negative_count]

\* faulty variant: the confidence is not capped
simple_sentiment_analysis_uncapped(text) ==
    LET cleaned == re_sub(lower(text))
        words == split(cleaned)
        positive_count == count_in(words, positive_words_flask)
        negative_count == count_in(words, negative_words_flask)
    IN  IF positive_count > negative_count
        THEN [sentiment |-> "positive",
              confidence |-> 60 + (positive_count - negative_count) * 10,
              positive_words_found |-> positive_count,
              negative_words_found |-> negative_count]
        ELSE IF negative_count > positive_count
        THEN [sentiment |-> "negative",
              confidence |-> 60 + (negative_count - positive_count) * 10,
              positive_words_found |-> positive_count,
              negative_words_found |-> negative_count]
        ELSE [sentiment |-> "neutral",
              confidence |-> 50,
              positive_words_found |-> positive_count,
              negative_words_found |-> negative_count]

\* faulty variant: the text is not lower-cased before it is split
simple_sentiment_analysis_cased(text) ==
    LET cleaned == re_sub(text)
        words == split(cleaned)
        positive_count == count_in(words, positive_words_flask)
        negative_count == count_in(words, negative_words_flask)
    IN  IF positive_count > negative_count
        THEN [sentiment |-> "positive",
              confidence |-> min(60 + (positive_count - negative_count) * 10, 95),
              positive_words_found |-> positive_count,
              negative_words_found |-> negative_count]
        ELSE IF negative_count > positive_count
        THEN [sentiment |-> "negative",
              confidence |-> min(60 + (negative_count - positive_count) * 10, 95),
              positive_words_found |-> positive_count,
              negative_words_found |-> negative_count]
        ELSE [sentiment |-> "neutral",
              confidence |-> 50,
              positive_words_found |-> positive_count,
              negative_words_found |-> negative_count]

simple_sentiment_analysis_flask(text) ==
    LET cleaned == re_sub(lower(text))
        words == split(cleaned)
        positive_count == count_in(words, positive_words_flask)
        negative_count == count_in(words, negative_words_flask)
    IN  IF positive_count > negative_count
        THEN [sentiment |-> "positive",
              confidence |-> min(60 + (positive_count - negative_count) * 10, 95),
              positive_words_found |-> positive_count,
              negative_words_found |-> negative_count]
        ELSE IF negative_count > positive_count
        THEN [sentiment |-> "negative",
              confidence |-> min(60 + (negative_count - positive_count) * 10, 95),
              positive_words_found |-> positive_count,
              negative_words_found |-> negative_count]
        ELSE [sentiment |-> "neutral",
              confidence |-> 50,
              positive_words_found |-> positive_count,
              negative_words_found |-> negative_count]

simple_sentiment_analysis_fastapi(text) ==
    LET text_lower == lower(text)
        text_clean == re_sub(text_lower)
        words == split(text_clean)
        positive_count == count_in(words, positive_words_fastapi)
        negative_count == count_in(words, negative_words_fastapi)
    IN  IF positive_count > negative_count
        THEN [sentiment |-> "positive",
              confidence |-> min(60 + (positive_count - negative_count) * 10, 95),
              positive_words_found |-> positive_count,
              negative_words_found |-> negative_count,
              total_words |-> Len(words)]
        ELSE IF negative_count > positive_count
        THEN [sentiment |-> "negative",
              confidence |-> min(60 + (negative_count - positive_count) * 10, 95),
              positive_words_found |-> positive_count,
              negative_words_found |-> negative_count,
              total_words |-> Len(words)]
        ELSE [sentiment |-> "neutral",
              confidence |-> 50,
              positive_words_found |-> positive_count,
              negative_words_found |-> negative_count,
              total_words |-> Len(words)]

(***************************************************************************)
(* JSON values of a request body.                                          *)
(***************************************************************************)
JStr(s) == [type |-> "str", chars |-> s, num |-> 0, items |-> <<>>]
JInt(n) == [type |-> "int", chars |-> <<>>, num |-> n, items |-> <<>>]
JNull == [type |-> "null", chars |-> <<>>, num |-> 0, items |-> <<>>]
JList(l) == [type |-> "list", chars |-> <<>>, num |-> 0, items |-> l]

\* Python truth value of a JSON value ("not v" is ~Truthy(v))
Truthy(v) ==
    CASE v.type = "str" -> v.chars # <<>>
      [] v.type = "int" -> v.num # 0
      [] v.type = "list" -> v.items # <<>>
      [] OTHER -> FALSE

\* isinstance(v, str), isinstance(v, list)
IsStr(v) == v.type = "str"
IsList(v) == v.type = "list"

(***************************************************************************)
(* The texts that are sent and scored: every concatenation of at most      *)
(* MaxPieces pieces, runs of up to MaxRun positive words followed by up to *)
(* MaxRun negative words, and the examples of the documentation.           *)
(***************************************************************************)
Pieces ==
    { <<"g","o","o","d">>, <<"G","r","e","a","t">>, <<"b","a","d">>,
      <<"b","e","s","t">>, <<"f","i","l","m">>, <<" ">>, <<"!">> }

RECURSIVE Concat(_)
Concat(ss) == IF ss = <<>> THEN <<>> ELSE Head(ss) \o Concat(Tail(ss))

RECURSIVE Repeat(_, _)
Repeat(s, n) == IF n = 0 THEN <<>> ELSE s \o Repeat(s, n - 1)

ShortTexts ==
    { Concat(ps) : ps \in UNION { [1..n -> Pieces] : n \in 0..MaxPieces } }

RunTexts ==
    { Repeat(<<"g","o","o","d"," ">>, i) \o Repeat(<<"b","a","d"," ">>, j) :
        i \in 0..MaxRun, j \in 0..MaxRun }

GreatFilm == <<"G","r","e","a","t"," ","f","i","l","m">>
TerribleFilm == <<"T","e","r","r","i","b","l","e"," ","f","i","l","m">>
GoodBad == <<"g","o","o","d"," ","b","a","d">>
BadBoringAwful == <<"b","a","d"," ","b","o","r","i","n","g"," ","a","w","f","u","l">>
GreatAndAmazing ==
    <<"T","h","i","s"," ","m","o","v","i","e"," ","w","a","s"," ",
      "g","r","e","a","t"," ","a","n","d"," ","a","m","a","z","i","n","g">>
Blank == <<" "," ">>

ExampleTexts ==
    { GreatFilm, TerribleFilm, GoodBad, BadBoringAwful, GreatAndAmazing, Blank,
      <<>>, <<" ","\t","\n">> }

Texts == ShortTexts \cup RunTexts \cup ExampleTexts

(***************************************************************************)
(* The four programs.  A state is the state of one process running one of  *)
(* them: its module globals, whether it serves, and the request it handled *)
(* last with the response it gave and the texts it passed to its scorer.   *)
(***************************************************************************)
SimplePrograms == {"simple_flask_api", "simple_fastapi_api"}
ModelPrograms == {"flask_api", "fastapi_api"}
Programs == SimplePrograms \cup ModelPrograms

None == "None"
Loaded == "loaded"

NoRequest == [program |-> "", endpoint |-> "", data |-> <<>>]
NoResponse == [status |-> 0, body |-> <<>>]

\* no call of the scoring function has been recorded
NoCall == [text |-> <<>>, result |-> <<>>, recorded |-> FALSE]

(***************************************************************************)
(* The pickled classifier pipeline is an artifact outside the repository:  *)
(* it is a fixed but arbitrary function from a text to what the pipeline   *)
(* does on it, either raising or giving a predicted class and a            *)
(* probability vector (in hundredths).                                     *)
(***************************************************************************)
ModelTexts == { <<>>, Blank, GreatFilm }

Outcomes ==
    { [raises |-> TRUE,  prediction |-> 0, proba |-> <<0>>],
      [raises |-> FALSE, prediction |-> 1, proba |-> <<20, 80>>],
      [raises |-> FALSE, prediction |-> 0, proba |-> <<90, 10>>],
      [raises |-> FALSE, prediction |-> 2, proba |-> <<30, 30, 40>>] }

Classifiers == [ModelTexts -> Outcomes]

NoClassifier == [t \in ModelTexts |-> [raises |-> TRUE, prediction |-> 0, proba |-> <<0>>]]

\* numpy's ndarray.max()
Max(s) == CHOOSE x \in Range(s) : \A y \in Range(s) : y <= x

\* the value preprocessing_functions['preprocess_text'](text) of the artifact
preprocess_text(text) == [preprocess_text |-> text]

(***************************************************************************)
(* predict_sentiment of flask_api and of fastapi_api.  The result is       *)
(* [raised, value]: value is the returned dict, or on a raise the          *)
(* exception (fastapi_api raises HTTPException(500) in place of the        *)
(* original one).                                                          *)
(***************************************************************************)
PipelineRaises(text) ==
    \/ preprocessing_functions = None
    \/ vectorizer = None
    \/ model = None
    \/ classifier[text].raises

\* faulty variant: every predicted class but 0 is reported as positive
predict_sentiment_nonzero(text) ==
    IF PipelineRaises(text)
    THEN [raised |-> TRUE, value |-> [exception |-> "Exception"]]
    ELSE [raised |-> FALSE,
          value |-> [sentiment |-> IF classifier[text].prediction # 0
                                   THEN "positive" ELSE "negative",
                     confidence |-> Max(classifier[text].proba),
                     processed_text |-> preprocess_text(text)]]

predict_sentiment_flask(text) ==
    IF PipelineRaises(text)
    THEN [raised |-> TRUE, value |-> [exception |-> "Exception"]]
    ELSE [raised |-> FALSE,
          value |-> [sentiment |-> IF classifier[text].prediction = 1
                                   THEN "positive" ELSE "negative",
                     confidence |-> Max(classifier[text].proba),
                     processed_text |-> preprocess_text(text)]]

predict_sentiment_fastapi(text) ==
    IF PipelineRaises(text)
    THEN [raised |-> TRUE,
          value |-> [exception |-> "HTTPException", status_code |-> 500,
                     detail |-> "Error making prediction"]]
    ELSE [raised |-> FALSE,
          value |-> [sentiment |-> IF classifier[text].prediction = 1
                                   THEN "positive" ELSE "negative",
                     confidence |-> Max(classifier[text].proba),
                     processed_text |-> preprocess_text(text),
                     original_text |-> JStr(text),
                     timestamp |-> clock]]

(***************************************************************************)
(* Request handling.  A handler maps the parsed JSON body (data, a dict)   *)
(* to [status, body, calls]: the HTTP status, the response body, and the   *)
(* texts the handler passed to its scorer, in order.  A timestamp is the   *)
(* reading of the clock (datetime.now()) when the handler runs.            *)
(***************************************************************************)
Reply(status, body, scored) == [status |-> status, body |-> body, calls |-> scored]

\* 'key' in data, for a dict data
HasKey(data, key) == key \in DOMAIN data

\* dict d after d[key] = value for every key of the dict new
SetKeys(d, new) == new @@ d

\* the bounds of the pydantic request models
min_length == 1
max_length == 10000
min_items == 1
max_items == 100

\* TextRequest(**data) validates
TextRequest(data) ==
    /\ HasKey(data, "text")
    /\ IsStr(data.text)
    /\ Len(data.text.chars) >= min_length
    /\ Len(data.text.chars) <= max_length

\* BatchTextRequest(**data) validates
BatchTextRequest(data) ==
    /\ HasKey(data, "texts")
    /\ IsList(data.texts)
    /\ \A i \in DOMAIN data.texts.items : IsStr(data.texts.items[i])
    /\ Len(data.texts.items) >= min_items
    /\ Len(data.texts.items) <= max_items

\* the response FastAPI gives when the request model does not validate
RequestValidationError == Reply(422, [detail |-> "validation error"], <<>>)

(***************************************************************************)
(* simple_flask_api                                                        *)
(***************************************************************************)
predict_simple_flask(data) ==
    IF ~HasKey(data, "text")
    THEN Reply(400, [error |-> "Missing required field: text", status |-> "error"], <<>>)
    ELSE LET text == data.text IN
         IF ~Truthy(text)
         THEN Reply(400, [error |-> "Text cannot be empty", status |-> "error"], <<>>)
         ELSE IF ~IsStr(text)
         THEN \* text.strip() raises AttributeError, caught by the handler's except
              Reply(500, [error |-> "Internal server error", status |-> "error"], <<>>)
         ELSE IF strip(text.chars) = <<>>
         THEN Reply(400, [error |-> "Text cannot be empty", status |-> "error"], <<>>)
         ELSE LET result == simple_sentiment_analysis_flask(text.chars) IN
              Reply(200,
                    [sentiment |-> result.sentiment,
                     confidence |-> result.confidence,
                     text |-> text,
                     details |-> [positive_words_found |-> result.positive_words_found,
                                  negative_words_found |-> result.negative_words_found],
                     timestamp |-> clock,
                     status |-> "success"],
                    <<text.chars>>)

\* the items the for loop of predict_batch gets through: all of them, or
\* those before the first item its body raises on (text.strip() of a
\* non-string that is not falsy raises AttributeError)
loop_items_simple_flask(texts) ==
    LET raising == { i \in DOMAIN texts : Truthy(texts[i]) /\ ~IsStr(texts[i]) }
    IN  IF raising = {}
        THEN texts
        ELSE SubSeq(texts, 1, (CHOOSE i \in raising : \A k \in raising : i <= k) - 1)

\* the for loop of predict_batch: scored are the items not skipped by
\* continue, each appended to results and counted under its sentiment;
\* raised is set when the loop body raises
batch_loop_simple_flask(texts) ==
    LET scored == SelectSeq(loop_items_simple_flask(texts),
                            LAMBDA text : Truthy(text) /\ strip(text.chars) # <<>>)
        result == [j \in DOMAIN scored |-> simple_sentiment_analysis_flask(scored[j].chars)]
    IN  [results |-> [j \in DOMAIN scored |->
                        [text |-> scored[j],
                         sentiment |-> result[j].sentiment,
                         confidence |-> result[j].confidence,
                         details |-> [positive_words_found |-> result[j].positive_words_found,
                                      negative_words_found |-> result[j].negative_words_found]]],
         positive_count |-> Len(SelectSeq(result, LAMBDA r : r.sentiment = "positive")),
         negative_count |-> Len(SelectSeq(result, LAMBDA r : r.sentiment = "negative")),
         neutral_count |-> Len(SelectSeq(result,
                                   LAMBDA r : r.sentiment \notin {"positive", "negative"})),
         calls |-> [j \in DOMAIN scored |-> scored[j].chars],
         raised |-> \E i \in DOMAIN texts : Truthy(texts[i]) /\ ~IsStr(texts[i])]

EmptyBatch ==
    [results |-> <<>>, positive_count |-> 0, negative_count |-> 0,
     neutral_count |-> 0, calls |-> <<>>, raised |-> FALSE]

predict_batch_simple_flask(data) ==
    IF ~HasKey(data, "texts")
    THEN Reply(400, [error |-> "Missing required field: texts", status |-> "error"], <<>>)
    ELSE IF ~IsList(data.texts)
    THEN Reply(400, [error |-> "texts must be an array", status |-> "error"], <<>>)
    ELSE IF Len(data.texts.items) = 0
    THEN Reply(400, [error |-> "texts array cannot be empty", status |-> "error"], <<>>)
    ELSE LET done == batch_loop_simple_flask(data.texts.items) IN
         IF done.raised
         THEN Reply(500, [error |-> "Internal server error", status |-> "error"],
                    done.calls)
         ELSE Reply(200,
                    [results |-> done.results,
                     summary |-> [total_texts |-> Len(done.results),
                                  positive_count |-> done.positive_count,
                                  negative_count |-> done.negative_count,
                                  neutral_count |-> done.neutral_count],
                     timestamp |-> clock,
                     status |-> "success"],
                    done.calls)

(***************************************************************************)
(* simple_fastapi_api                                                      *)
(***************************************************************************)
predict_simple_fastapi(data) ==
    IF ~TextRequest(data)
    THEN RequestValidationError
    ELSE LET text == strip(data.text.chars) IN
         IF text = <<>>
         THEN Reply(400, [detail |-> "Text cannot be empty"], <<>>)
         ELSE LET result == simple_sentiment_analysis_fastapi(text) IN
              Reply(200,
                    [sentiment |-> result.sentiment,
                     confidence |-> result.confidence,
                     text |-> JStr(text),
                     details |-> [positive_words_found |-> result.positive_words_found,
                                  negative_words_found |-> result.negative_words_found,
                                  total_words |-> result.total_words],
                     timestamp |-> clock,
                     status |-> "success"],
                    <<text>>)

\* [text.strip() for text in request.texts if text.strip()]
RECURSIVE stripped_texts(_)
stripped_texts(items) ==
    IF items = <<>>
    THEN <<>>
    ELSE (IF strip(Head(items).chars) # <<>> THEN <<strip(Head(items).chars)>> ELSE <<>>)
         \o stripped_texts(Tail(items))

\* faulty variant: the loop has no else branch, a neutral result is not counted
RECURSIVE batch_loop_no_else(_, _, _)
batch_loop_no_else(texts, i, acc) ==
    IF i > Len(texts)
    THEN acc
    ELSE LET text == texts[i]
             result == simple_sentiment_analysis_fastapi(text)
         IN  batch_loop_no_else(texts, i + 1,
                [results |-> Append(acc.results,
                    [text |-> JStr(text),
                     sentiment |-> result.sentiment,
                     confidence |-> result.confidence,
                     details |-> [positive_words_found |-> result.positive_words_found,
                                  negative_words_found |-> result.negative_words_found,
                                  total_words |-> result.total_words]]),
                 positive_count |-> acc.positive_count
                                    + (IF result.sentiment = "positive" THEN 1 ELSE 0),
                 negative_count |-> acc.negative_count
                                    + (IF result.sentiment = "negative" THEN 1 ELSE 0),
                 neutral_count |-> acc.neutral_count,
                 calls |-> Append(acc.calls, text),
                 raised |-> FALSE])

RECURSIVE batch_loop_simple_fastapi(_, _, _)
batch_loop_simple_fastapi(texts, i, acc) ==
    IF i > Len(texts)
    THEN acc
    ELSE LET text == texts[i]
             result == simple_sentiment_analysis_fastapi(text)
         IN  batch_loop_simple_fastapi(texts, i + 1,
                [results |-> Append(acc.results,
                    [text |-> JStr(text),
                     sentiment |-> result.sentiment,
                     confidence |-> result.confidence,
                     details |-> [positive_words_found |-> result.positive_words_found,
                                  negative_words_found |-> result.negative_words_found,
                                  total_words |-> result.total_words]]),
                 positive_count |-> acc.positive_count
                                    + (IF result.sentiment = "positive" THEN 1 ELSE 0),
                 negative_count |-> acc.negative_count
                                    + (IF result.sentiment = "negative" THEN 1 ELSE 0),
                 neutral_count |-> acc.neutral_count
                                   + (IF result.sentiment \notin {"positive", "negative"}
                                      THEN 1 ELSE 0),
                 calls |-> Append(acc.calls, text),
                 raised |-> FALSE])

\* sum(r['confidence'] for r in results)
RECURSIVE sum_confidence(_)
sum_confidence(results) ==
    IF results = <<>> THEN 0 ELSE Head(results).confidence + sum_confidence(Tail(results))

\* a / b of two numbers, kept as the fraction
Div(a, b) == [num |-> a, den |-> b]

predict_batch_simple_fastapi(data) ==
    IF ~BatchTextRequest(data)
    THEN RequestValidationError
    ELSE LET texts == stripped_texts(data.texts.items) IN
         IF texts = <<>>
         THEN Reply(400, [detail |-> "No valid texts provided"], <<>>)
         ELSE LET done == batch_loop_simple_fastapi(texts, 1, EmptyBatch) IN
              Reply(200,
                    [results |-> done.results,
                     summary |-> [total_texts |-> Len(done.results),
                                  positive_count |-> done.positive_count,
                                  negative_count |-> done.negative_count,
                                  neutral_count |-> done.neutral_count,
                                  average_confidence |->
                                      Div(sum_confidence(done.results),
                                          Len(done.results))],
                     timestamp |-> clock,
                     status |-> "success"],
                    done.calls)

(***************************************************************************)
(* flask_api                                                               *)
(***************************************************************************)
\* faulty variant: the handler does not look at model before it goes on
predict_flask_unchecked(data) ==
    IF DOMAIN data = {}
    THEN Reply(400, [error |-> "No JSON data provided",
                     message |-> "Please provide JSON data with text field"], <<>>)
    ELSE IF ~HasKey(data, "text")
    THEN Reply(400, [error |-> "Missing text field",
                     message |-> "Please provide text field in JSON data"], <<>>)
    ELSE LET text == data.text IN
         IF ~Truthy(text) \/ ~IsStr(text)
         THEN Reply(400, [error |-> "Invalid text",
                          message |-> "Text must be a non-empty string"], <<>>)
         ELSE LET result == predict_sentiment_flask(text.chars) IN
              IF result.raised
              THEN Reply(500, [error |-> "Internal server error",
                               message |-> "An error occurred while processing your request"],
                         <<text.chars>>)
              ELSE Reply(200,
                         SetKeys(result.value,
                                 [timestamp |-> clock, original_text |-> text]),
                         <<text.chars>>)

predict_flask(data) ==
    IF model = None
    THEN Reply(500, [error |-> "Model not loaded",
                     message |-> "Please restart the server"], <<>>)
    ELSE IF DOMAIN data = {}
    THEN Reply(400, [error |-> "No JSON data provided",
                     message |-> "Please provide JSON data with text field"], <<>>)
    ELSE IF ~HasKey(data, "text")
    THEN Reply(400, [error |-> "Missing text field",
                     message |-> "Please provide text field in JSON data"], <<>>)
    ELSE LET text == data.text IN
         IF ~Truthy(text) \/ ~IsStr(text)
         THEN Reply(400, [error |-> "Invalid text",
                          message |-> "Text must be a non-empty string"], <<>>)
         ELSE LET result == predict_sentiment_flask(text.chars) IN
              IF result.raised
              THEN Reply(500, [error |-> "Internal server error",
                               message |-> "An error occurred while processing your request"],
                         <<text.chars>>)
              ELSE Reply(200,
                         SetKeys(result.value,
                                 [timestamp |-> clock, original_text |-> text]),
                         <<text.chars>>)

\* faulty variant: the index of an entry is counted from 1
batch_entry_from_1(texts, i) ==
    LET text == texts[i] IN
    IF ~Truthy(text) \/ ~IsStr(text)
    THEN [index |-> i, error |-> "Invalid text", original_text |-> text]
    ELSE LET result == predict_sentiment_flask(text.chars) IN
         IF result.raised
         THEN [index |-> i, error |-> result.value.exception, original_text |-> text]
         ELSE SetKeys(result.value, [index |-> i, original_text |-> text])

\* the entry the body of the for loop of batch_predict appends for item i
\* (enumerate counts from 0)
batch_entry_flask(texts, i) ==
    LET text == texts[i] IN
    IF ~Truthy(text) \/ ~IsStr(text)
    THEN [index |-> i - 1, error |-> "Invalid text", original_text |-> text]
    ELSE LET result == predict_sentiment_flask(text.chars) IN
         IF result.raised
         THEN [index |-> i - 1, error |-> result.value.exception, original_text |-> text]
         ELSE SetKeys(result.value, [index |-> i - 1, original_text |-> text])

\* the for loop of batch_predict: one entry for every item, in order, and
\* predict_sentiment called on the items that are non-empty strings
batch_loop_flask(texts) ==
    LET valid == SelectSeq(texts, LAMBDA text : Truthy(text) /\ IsStr(text)) IN
    [results |-> [i \in DOMAIN texts |-> batch_entry_flask(texts, i)],
     calls |-> [j \in DOMAIN valid |-> valid[j].chars]]

batch_predict_flask(data) ==
    IF model = None
    THEN Reply(500, [error |-> "Model not loaded",
                     message |-> "Please restart the server"], <<>>)
    ELSE IF ~HasKey(data, "texts")
    THEN Reply(400, [error |-> "Missing texts field",
                     message |-> "Please provide texts field with list of strings"], <<>>)
    ELSE IF ~IsList(data.texts) \/ ~Truthy(data.texts)
    THEN Reply(400, [error |-> "Invalid texts format",
                     message |-> "Texts must be a non-empty list of strings"], <<>>)
    ELSE LET done == batch_loop_flask(data.texts.items) IN
         Reply(200,
               [results |-> done.results,
                total_predictions |-> Len(done.results),
                timestamp |-> clock],
               done.calls)

(***************************************************************************)
(* fastapi_api                                                             *)
(***************************************************************************)
predict_fastapi(data) ==
    IF ~TextRequest(data)
    THEN RequestValidationError
    ELSE IF model = None
    THEN Reply(500, [detail |-> "Model not loaded"], <<>>)
    ELSE LET result == predict_sentiment_fastapi(data.text.chars) IN
         IF result.raised
         THEN \* the HTTPException of predict_sentiment is re-raised
              Reply(result.value.status_code, [detail |-> result.value.detail],
                    <<data.text.chars>>)
         ELSE Reply(200, result.value, <<data.text.chars>>)

RECURSIVE batch_loop_fastapi(_, _, _)
batch_loop_fastapi(texts, i, acc) ==
    IF i > Len(texts)
    THEN acc
    ELSE LET text == texts[i]
             result == predict_sentiment_fastapi(text.chars)
         IN  batch_loop_fastapi(texts, i + 1,
                [results |-> Append(acc.results,
                    IF result.raised
                    THEN [index |-> i - 1,
                          error |-> result.value.detail,
                          original_text |-> text,
                          timestamp |-> clock]
                    ELSE SetKeys(result.value, [index |-> i - 1])),
                 calls |-> Append(acc.calls, text.chars)])

\* faulty variant: the HTTPException of predict_sentiment leaves the loop
\* and is re-raised by the handler
batch_predict_fastapi_reraises(data) ==
    IF ~BatchTextRequest(data)
    THEN RequestValidationError
    ELSE IF model = None
    THEN Reply(500, [detail |-> "Model not loaded"], <<>>)
    ELSE LET texts == data.texts.items
             raising == { i \in DOMAIN texts : predict_sentiment_fastapi(texts[i].chars).raised }
             done == batch_loop_fastapi(texts, 1, [results |-> <<>>, calls |-> <<>>])
         IN  IF raising # {}
             THEN Reply(500, [detail |-> "Error making prediction"],
                        SubSeq(done.calls, 1, CHOOSE i \in raising : \A k \in raising : i <= k))
             ELSE Reply(200,
                        [results |-> done.results,
                         total_predictions |-> Len(done.results),
                         timestamp |-> clock],
                        done.calls)

batch_predict_fastapi(data) ==
    IF ~BatchTextRequest(data)
    THEN RequestValidationError
    ELSE IF model = None
    THEN Reply(500, [detail |-> "Model not loaded"], <<>>)
    ELSE LET done == batch_loop_fastapi(data.texts.items, 1,
                                        [results |-> <<>>, calls |-> <<>>]) IN
         Reply(200,
               [results |-> done.results,
                total_predictions |-> Len(done.results),
                timestamp |-> clock],
               done.calls)

(***************************************************************************)
(* The GET endpoints of the model servers.  The contents of the metadata   *)
(* dict belong to the artifact: metadata[key] stands for the value it has  *)
(* under key.                                                              *)
(***************************************************************************)
\* metadata[key] if metadata else 'Unknown'
metadata_or_unknown(key) ==
    IF metadata # None THEN [metadata |-> key] ELSE [metadata |-> "Unknown"]

\* home of flask_api and health_check of fastapi_api
health_check ==
    Reply(200,
          [status |-> "healthy",
           message |-> "Sentiment Analysis API is running",
           model_info |-> [model_name |-> metadata_or_unknown("model_name"),
                           accuracy |-> metadata_or_unknown("accuracy"),
                           f1_score |-> metadata_or_unknown("f1_score")],
           timestamp |-> clock],
          <<>>)

\* model_info of flask_api
model_info ==
    IF metadata = None
    THEN Reply(500, [error |-> "Model not loaded"], <<>>)
    ELSE Reply(200, [model_metadata |-> metadata, timestamp |-> clock], <<>>)

\* get_model_info of fastapi_api
get_model_info ==
    IF metadata = None
    THEN Reply(500, [detail |-> "Model not loaded"], <<>>)
    ELSE Reply(200, [ModelInfo |-> metadata], <<>>)

(***************************************************************************)
(* The routes of the running program: POST /predict, and POST              *)
(* /predict/batch (lexicon servers) or POST /batch_predict (model servers).*)
(***************************************************************************)
predict_route(data) ==
    CASE program = "simple_flask_api" -> predict_simple_flask(data)
      [] program = "simple_fastapi_api" -> predict_simple_fastapi(data)
      [] program = "flask_api" -> predict_flask(data)
      [] OTHER -> predict_fastapi(data)

batch_route(data) ==
    CASE program = "simple_flask_api" -> predict_batch_simple_flask(data)
      [] program = "simple_fastapi_api" -> predict_batch_simple_fastapi(data)
      [] program = "flask_api" -> batch_predict_flask(data)
      [] OTHER -> batch_predict_fastapi(data)

(***************************************************************************)
(* Startup.  load_model_components assigns the four globals in order; the  *)
(* load that raises leaves the globals assigned before it in place.        *)
(***************************************************************************)
LoadSteps == <<"model", "vectorizer", "preprocessing_functions", "metadata", "log">>

\* the globals after load_model_components when step number failed raises
\* (Len(LoadSteps) + 1: no step raises)
load_model_components(failed) ==
    [model |-> IF failed > 1 THEN Loaded ELSE None,
     vectorizer |-> IF failed > 2 THEN Loaded ELSE None,
     preprocessing_functions |-> IF failed > 3 THEN Loaded ELSE None,
     metadata |-> IF failed > 4 THEN Loaded ELSE None,
     return |-> failed > Len(LoadSteps)]

(***************************************************************************)
(* The request bodies that are sent to a program.                          *)
(***************************************************************************)
NonStrings == { JInt(5), JNull }

\* the values of "text" sent to the program
TextValues(p) ==
    CASE p = "simple_flask_api" -> { JStr(t) : t \in Texts } \cup NonStrings
      [] p = "simple_fastapi_api" -> { JStr(t) : t \in Texts } \cup { JNull }
      [] p = "flask_api" -> { JStr(t) : t \in ModelTexts } \cup NonStrings
      [] OTHER -> { JStr(t) : t \in ModelTexts } \cup { JNull }

BatchTextsSimple == { <<>>, Blank, GreatFilm, TerribleFilm, GoodBad }

\* the items of "texts" sent to the program
BatchItems(p) ==
    CASE p = "simple_flask_api" -> { JStr(t) : t \in BatchTextsSimple } \cup NonStrings
      [] p = "simple_fastapi_api" -> { JStr(t) : t \in BatchTextsSimple } \cup { JNull }
      [] p = "flask_api" -> { JStr(t) : t \in ModelTexts } \cup { JInt(5) }
      [] OTHER -> { JStr(t) : t \in ModelTexts } \cup { JNull }

PredictData(p) ==
    { <<>>, [other |-> JNull] } \cup { [text |-> v] : v \in TextValues(p) }

BatchData(p) ==
    { <<>>, [texts |-> JStr(GreatFilm)] }
    \cup { [texts |-> JList(l)] :
             l \in UNION { [1..n -> BatchItems(p)] : n \in 0..MaxBatch } }

(***************************************************************************)
(* The state machine.                                                      *)
(***************************************************************************)
Init ==
    /\ program \in Programs
    /\ phase = "init"
    /\ model = None
    /\ vectorizer = None
    /\ preprocessing_functions = None
    /\ metadata = None
    /\ classifier \in (IF program \in ModelPrograms THEN Classifiers ELSE {NoClassifier})
    /\ request = NoRequest
    /\ response = NoResponse
    /\ calls = <<>>
    /\ returned = <<>>
    /\ clock = 0
    /\ earlier = NoCall

\* __main__ of simple_flask_api and simple_fastapi_api: the server starts
SimpleMain ==
    /\ program \in SimplePrograms
    /\ phase = "init"
    /\ phase' = "serving"
    /\ UNCHANGED <<program, model, vectorizer, preprocessing_functions, metadata,
                   classifier, request, response, calls, returned, clock, earlier>>

\* faulty variant: the server starts whatever load_model_components() returns
FlaskMain_ignores_return ==
    /\ program = "flask_api"
    /\ phase = "init"
    /\ \E failed \in 1..(Len(LoadSteps) + 1) :
         LET loaded == load_model_components(failed) IN
         /\ model' = loaded.model
         /\ vectorizer' = loaded.vectorizer
         /\ preprocessing_functions' = loaded.preprocessing_functions
         /\ metadata' = loaded.metadata
         /\ phase' = "serving"
    /\ UNCHANGED <<program, classifier, request, response, calls, returned,
                   clock, earlier>>

\* __main__ of flask_api: exit(1) unless load_model_components() returns True
FlaskMain ==
    /\ program = "flask_api"
    /\ phase = "init"
    /\ \E failed \in 1..(Len(LoadSteps) + 1) :
         LET loaded == load_model_components(failed) IN
         /\ model' = loaded.model
         /\ vectorizer' = loaded.vectorizer
         /\ preprocessing_functions' = loaded.preprocessing_functions
         /\ metadata' = loaded.metadata
         /\ phase' = IF loaded.return THEN "serving" ELSE "exited"
    /\ UNCHANGED <<program, classifier, request, response, calls, returned,
                   clock, earlier>>

\* startup_event of fastapi_api: raises, and the server does not start,
\* unless load_model_components() returns True
startup_event ==
    /\ program = "fastapi_api"
    /\ phase = "init"
    /\ \E failed \in 1..(Len(LoadSteps) + 1) :
         LET loaded == load_model_components(failed) IN
         /\ model' = loaded.model
         /\ vectorizer' = loaded.vectorizer
         /\ preprocessing_functions' = loaded.preprocessing_functions
         /\ metadata' = loaded.metadata
         /\ phase' = IF loaded.return THEN "serving" ELSE "exited"
    /\ UNCHANGED <<program, classifier, request, response, calls, returned,
                   clock, earlier>>

\* flask_api imported by a WSGI server (gunicorn flask_api:app, flask run):
\* the __main__ block does not run, load_model_components is never called
\* and app serves with the four globals as the module body left them
ServeFlaskApp ==
    /\ program = "flask_api"
    /\ phase = "init"
    /\ phase' = "serving"
    /\ UNCHANGED <<program, model, vectorizer, preprocessing_functions, metadata,
                   classifier, request, response, calls, returned, clock, earlier>>

\* app of fastapi_api called by a host that does not send the startup event
\* (lifespan events off, a test client that is not entered as a context
\* manager, app mounted under another application): startup_event never runs
ServeFastapiApp ==
    /\ program = "fastapi_api"
    /\ phase = "init"
    /\ phase' = "serving"
    /\ UNCHANGED <<program, model, vectorizer, preprocessing_functions, metadata,
                   classifier, request, response, calls, returned, clock, earlier>>

\* what the scoring function of the program returns on a text, as
\* [raised, value]
scorer(text) ==
    CASE program = "simple_flask_api" ->
           [raised |-> FALSE, value |-> simple_sentiment_analysis_flask(text)]
      [] program = "simple_fastapi_api" ->
           [raised |-> FALSE, value |-> simple_sentiment_analysis_fastapi(text)]
      [] program = "flask_api" -> predict_sentiment_flask(text)
      [] OTHER -> predict_sentiment_fastapi(text)

\* the program serves and no request is being handled
Idle == phase = "serving" /\ request = NoRequest

\* the serving program handles a request: the handler runs to its return
Handle(endpoint, data, reply) ==
    /\ request' = [program |-> program, endpoint |-> endpoint, data |-> data]
    /\ response' = [status |-> reply.status, body |-> reply.body]
    /\ calls' = reply.calls
    /\ returned' = [j \in DOMAIN reply.calls |-> scorer(reply.calls[j])]
    /\ UNCHANGED <<program, phase, model, vectorizer, preprocessing_functions,
                   metadata, classifier, clock, earlier>>

SimpleFlaskPredict ==
    /\ program = "simple_flask_api"
    /\ Idle
    /\ \E data \in PredictData(program) :
         Handle("predict", data, predict_simple_flask(data))

SimpleFlaskPredictBatch ==
    /\ program = "simple_flask_api"
    /\ Idle
    /\ \E data \in BatchData(program) :
         Handle("predict_batch", data, predict_batch_simple_flask(data))

SimpleFastapiPredict ==
    /\ program = "simple_fastapi_api"
    /\ Idle
    /\ \E data \in PredictData(program) :
         Handle("predict", data, predict_simple_fastapi(data))

SimpleFastapiPredictBatch ==
    /\ program = "simple_fastapi_api"
    /\ Idle
    /\ \E data \in BatchData(program) :
         Handle("predict_batch", data, predict_batch_simple_fastapi(data))

FlaskPredict ==
    /\ program = "flask_api"
    /\ Idle
    /\ \E data \in PredictData(program) :
         Handle("predict", data, predict_flask(data))

FlaskBatchPredict ==
    /\ program = "flask_api"
    /\ Idle
    /\ \E data \in BatchData(program) :
         Handle("batch_predict", data, batch_predict_flask(data))

FastapiPredict ==
    /\ program = "fastapi_api"
    /\ Idle
    /\ \E data \in PredictData(program) :
         Handle("predict", data, predict_fastapi(data))

FastapiBatchPredict ==
    /\ program = "fastapi_api"
    /\ Idle
    /\ \E data \in BatchData(program) :
         Handle("batch_predict", data, batch_predict_fastapi(data))

\* faulty variant: model_info reads the metadata file again, and a failed
\* read leaves metadata None
FlaskModelInfo_reloads ==
    /\ program = "flask_api"
    /\ Idle
    /\ \E read \in {Loaded, None} :
         /\ metadata' = read
         /\ request' = [program |-> program, endpoint |-> "model_info", data |-> <<>>]
         /\ response' = IF read = None
                        THEN [status |-> 500, body |-> [error |-> "Model not loaded"]]
                        ELSE [status |-> 200,
                              body |-> [model_metadata |-> read, timestamp |-> clock]]
    /\ UNCHANGED <<program, phase, model, vectorizer, preprocessing_functions,
                   classifier, calls, returned, clock, earlier>>

FlaskHome ==
    /\ program = "flask_api"
    /\ Idle
    /\ Handle("home", <<>>, health_check)

FlaskModelInfo ==
    /\ program = "flask_api"
    /\ Idle
    /\ Handle("model_info", <<>>, model_info)

FastapiHealthCheck ==
    /\ program = "fastapi_api"
    /\ Idle
    /\ Handle("health_check", <<>>, health_check)

FastapiGetModelInfo ==
    /\ program = "fastapi_api"
    /\ Idle
    /\ Handle("get_model_info", <<>>, get_model_info)

\* the response is sent and the handler's locals are dropped
ReturnResponse ==
    /\ request # NoRequest
    /\ phase = "serving"
    /\ request' = NoRequest
    /\ response' = NoResponse
    /\ calls' = <<>>
    /\ returned' = <<>>
    /\ UNCHANGED <<program, phase, model, vectorizer, preprocessing_functions,
                   metadata, classifier, clock, earlier>>

Next ==
    \/ SimpleMain
    \/ FlaskMain
    \/ startup_event
    \/ ServeFlaskApp
    \/ ServeFastapiApp
    \/ SimpleFlaskPredict
    \/ SimpleFlaskPredictBatch
    \/ SimpleFastapiPredict
    \/ SimpleFastapiPredictBatch
    \/ FlaskPredict
    \/ FlaskBatchPredict
    \/ FastapiPredict
    \/ FastapiBatchPredict
    \/ FlaskHome
    \/ FlaskModelInfo
    \/ FastapiHealthCheck
    \/ FastapiGetModelInfo
    \/ ReturnResponse

Spec == Init /\ [][Next]_vars

(***************************************************************************)
(* The lexicon scorer as a function: a text of Texts is drawn and the      *)
(* scorer of one of the lexicon servers is applied to it.                  *)
(***************************************************************************)
ScorerInit ==
    /\ program \in SimplePrograms
    /\ phase = "init"
    /\ model = None
    /\ vectorizer = None
    /\ preprocessing_functions = None
    /\ metadata = None
    /\ classifier = NoClassifier
    /\ request \in { [program |-> program, endpoint |-> "simple_sentiment_analysis",
                      data |-> [text |-> JStr(t)]] : t \in Texts }
    /\ response = NoResponse
    /\ calls = <<>>
    /\ returned = <<>>
    /\ clock = 0
    /\ earlier = NoCall

Score ==
    /\ response = NoResponse
    /\ response' = [status |-> 200,
                    body |-> IF program = "simple_flask_api"
                             THEN simple_sentiment_analysis_flask(request.data.text.chars)
                             ELSE simple_sentiment_analysis_fastapi(request.data.text.chars)]
    /\ calls' = <<request.data.text.chars>>
    /\ returned' = <<scorer(request.data.text.chars)>>
    /\ UNCHANGED <<program, phase, model, vectorizer, preprocessing_functions,
                   metadata, classifier, request, clock, earlier>>

ScorerNext == Score

ScorerSpec == ScorerInit /\ [][ScorerNext]_vars

(***************************************************************************)
(* Repeated calls of the scoring function.  The clock advances between     *)
(* requests, and one call of the scoring function (its text and what it    *)
(* returned) is recorded in earlier, to be held against the calls of the   *)
(* requests served after it.  The requests are the well-formed ones.       *)
(***************************************************************************)
ObservedTexts == IF program \in ModelPrograms THEN ModelTexts ELSE BatchTextsSimple

ObservedPredict ==
    /\ Idle
    /\ \E t \in ObservedTexts :
         LET data == [text |-> JStr(t)] IN
         Handle("predict", data, predict_route(data))

ObservedBatch ==
    /\ Idle
    /\ \E l \in UNION { [1..n -> ObservedTexts] : n \in 1..2 } :
         LET data == [texts |-> JList([i \in DOMAIN l |-> JStr(l[i])])] IN
         Handle(IF program \in SimplePrograms THEN "predict_batch" ELSE "batch_predict",
                data, batch_route(data))

\* datetime.now() gives a later time
Tick ==
    /\ clock < MaxClock
    /\ clock' = clock + 1
    /\ UNCHANGED <<program, phase, model, vectorizer, preprocessing_functions,
                   metadata, classifier, request, response, calls, returned, earlier>>

\* one call of the scoring function made for the request is recorded
Remember ==
    /\ ~earlier.recorded
    /\ \E j \in DOMAIN calls :
         earlier' = [text |-> calls[j], result |-> returned[j], recorded |-> TRUE]
    /\ UNCHANGED <<program, phase, model, vectorizer, preprocessing_functions,
                   metadata, classifier, request, response, calls, returned, clock>>

PurityNext ==
    \/ SimpleMain
    \/ FlaskMain
    \/ startup_event
    \/ ObservedPredict
    \/ ObservedBatch
    \/ ReturnResponse
    \/ Tick
    \/ Remember

PuritySpec == Init /\ [][PurityNext]_vars

(***************************************************************************)
(* Requests beyond the bounds of the request models: a text of             *)
(* max_length + 1 characters and a list of max_items + 1 texts, next to a  *)
(* request within the bounds.  The classifier is defined on the long text  *)
(* as well.                                                                *)
(***************************************************************************)
LongText == [i \in 1..(max_length + 1) |-> "a"]

LongList == [i \in 1..(max_items + 1) |-> JStr(GreatFilm)]

OversizeInit ==
    /\ program \in Programs
    /\ phase = "init"
    /\ model = None
    /\ vectorizer = None
    /\ preprocessing_functions = None
    /\ metadata = None
    /\ classifier \in (IF program \in ModelPrograms
                       THEN [ModelTexts \cup {LongText} -> Outcomes]
                       ELSE {NoClassifier})
    /\ request = NoRequest
    /\ response = NoResponse
    /\ calls = <<>>
    /\ returned = <<>>
    /\ clock = 0
    /\ earlier = NoCall

OversizePredict ==
    /\ Idle
    /\ \E t \in {GreatFilm, LongText} :
         LET data == [text |-> JStr(t)] IN
         Handle("predict", data, predict_route(data))

OversizeBatch ==
    /\ Idle
    /\ \E l \in {<<JStr(GreatFilm)>>, LongList} :
         LET data == [texts |-> JList(l)] IN
         Handle(IF program \in SimplePrograms THEN "predict_batch" ELSE "batch_predict",
                data, batch_route(data))

OversizeNext ==
    \/ SimpleMain
    \/ FlaskMain
    \/ startup_event
    \/ OversizePredict
    \/ OversizeBatch
    \/ ReturnResponse

OversizeSpec == OversizeInit /\ [][OversizeNext]_vars

(***************************************************************************)
(* Properties.                                                             *)
(***************************************************************************)
IsBatchRequest == request.endpoint \in {"predict_batch", "batch_predict"}

IsPredictRequest == request.endpoint = "predict"

\* the four components of the bundle are loaded
BundleLoaded ==
    /\ model = Loaded
    /\ vectorizer = Loaded
    /\ preprocessing_functions = Loaded
    /\ metadata = Loaded

\* the program has what its scorer needs: a model server has its bundle
ScorerAvailable == program \in ModelPrograms => BundleLoaded

\* the request is a batch request whose "texts" is a non-empty list that the
\* program's request model (if it has one) accepts, sent to a program whose
\* scorer is available
ListGiven ==
    /\ IsBatchRequest
    /\ ScorerAvailable
    /\ HasKey(request.data, "texts")
    /\ IsList(request.data.texts)
    /\ Len(request.data.texts.items) >= 1
    /\ (program \in {"simple_fastapi_api", "fastapi_api"}
            => BatchTextRequest(request.data))

BatchTexts == request.data.texts.items

\* a string that is empty after trimming whitespace
IsBlank(v) == IsStr(v) /\ strip(v.chars) = <<>>

\* the text was passed to the scorer (simple_fastapi_api passes it stripped)
WasScored(v) == \E j \in DOMAIN calls : calls[j] \in {v.chars, strip(v.chars)}

\* C1: in every batch endpoint, for every accepted input list texts, the
\* results list of the response has exactly len(texts) entries.
C1_ResultsLengthEqualsInput ==
    (ListGiven /\ response.status = 200)
        => Len(response.body.results) = Len(BatchTexts)

\* C2: in batch_predict of flask_api and fastapi_api, the k-th entry of
\* results carries index k (counted from 0) and original_text texts[k],
\* for prediction entries and for error entries alike.
C2_IndexAndOriginalText ==
    (program \in ModelPrograms /\ ListGiven /\ response.status = 200)
        => /\ Len(response.body.results) = Len(BatchTexts)
           /\ \A k \in DOMAIN BatchTexts :
                /\ response.body.results[k].index = k - 1
                /\ response.body.results[k].original_text = BatchTexts[k]

\* a batch_predict response with an error entry followed by a prediction
C2_Witness ==
    /\ program \in ModelPrograms
    /\ ListGiven
    /\ response.status = 200
    /\ Len(response.body.results) = 2
    /\ HasKey(response.body.results[1], "error")
    /\ HasKey(response.body.results[2], "sentiment")

\* the batch has an item that is a non-blank string
HasGoodItem ==
    \E k \in DOMAIN BatchTexts : IsStr(BatchTexts[k]) /\ ~IsBlank(BatchTexts[k])

\* C3: in every batch endpoint a bad item (empty, not a string, or one the
\* scorer raises on) does not abort the batch: when the list also has a
\* non-blank string, the response carries results and every non-blank
\* string of the list was passed to the scorer.
C3_BadItemDoesNotAbortBatch ==
    (ListGiven /\ HasGoodItem)
        => /\ response.status = 200
           /\ HasKey(response.body, "results")
           /\ \A k \in DOMAIN BatchTexts :
                (IsStr(BatchTexts[k]) /\ ~IsBlank(BatchTexts[k]))
                    => WasScored(BatchTexts[k])

\* C4: in a batch that has a non-blank string, an item that is empty after
\* trimming gets an error entry at its own index and is not passed to the
\* scorer, and the non-blank strings are scored.
C4_BlankItemIsErrorEntry ==
    (ListGiven /\ HasGoodItem)
        => \A k \in DOMAIN BatchTexts :
             /\ IsBlank(BatchTexts[k])
                  => /\ response.status = 200
                     /\ Len(response.body.results) >= k
                     /\ HasKey(response.body.results[k], "error")
                     /\ HasKey(response.body.results[k], "index")
                     /\ response.body.results[k].index = k - 1
                     /\ \A j \in DOMAIN calls : strip(calls[j]) # <<>>
             /\ (IsStr(BatchTexts[k]) /\ ~IsBlank(BatchTexts[k]))
                  => WasScored(BatchTexts[k])

\* no item of the batch is scored successfully
NoItemSucceeds ==
    \A k \in DOMAIN BatchTexts :
        \/ ~IsStr(BatchTexts[k])
        \/ IsBlank(BatchTexts[k])
        \/ program \in ModelPrograms /\ PipelineRaises(BatchTexts[k].chars)

\* C5: a batch of at least one item of which none is scored successfully
\* still gets a summary, with average_confidence 0.0 (stated for the two
\* lexicon servers, the programs whose batch response has a summary).
C5_ZeroSuccessSummary ==
    (program \in SimplePrograms /\ ListGiven /\ NoItemSucceeds)
        => /\ response.status = 200
           /\ HasKey(response.body, "summary")
           /\ HasKey(response.body.summary, "average_confidence")
           /\ response.body.summary.average_confidence.num = 0

\* the result of simple_sentiment_analysis is in response.body
ScoreDone == request.endpoint = "simple_sentiment_analysis" /\ response.status = 200

\* C6: simple_sentiment_analysis returns 'neutral' exactly when
\* positive_words_found = negative_words_found, confidence is 0.5 exactly
\* then, and otherwise the sentiment is that of the larger count.
C6_NeutralIffTie ==
    ScoreDone =>
        LET r == response.body IN
        /\ (r.sentiment = "neutral") <=> (r.positive_words_found = r.negative_words_found)
        /\ (r.confidence = 50) <=> (r.positive_words_found = r.negative_words_found)
        /\ (r.positive_words_found > r.negative_words_found) => (r.sentiment = "positive")
        /\ (r.negative_words_found > r.positive_words_found) => (r.sentiment = "negative")

\* a tie of one positive and one negative word
C6_Witness ==
    /\ ScoreDone
    /\ response.body.positive_words_found = 1
    /\ response.body.negative_words_found = 1
    /\ response.body.sentiment = "neutral"

Abs(x) == IF x < 0 THEN -x ELSE x

C8_ConfidenceRange ==
    ScoreDone => response.body.confidence \in {50} \cup (60..95)

\* a text of five positive words is scored
C8_Witness ==
    /\ ScoreDone
    /\ response.body.positive_words_found >= 5
    /\ response.body.negative_words_found = 0
    /\ response.body.confidence \in 60..95

\* C9: in every single-text predict endpoint a text that is empty after
\* trimming whitespace is rejected with a client error and is not passed to
\* the scorer.
C9_BlankTextRejected ==
    (/\ IsPredictRequest
     /\ ScorerAvailable
     /\ HasKey(request.data, "text")
     /\ IsBlank(request.data.text))
        => /\ response.status \in {400, 422}
           /\ calls = <<>>

\* the dicts predict_sentiment returned while the request was handled, each
\* with the text it was called on
Predictions ==
    IF \/ program \notin ModelPrograms
       \/ response.status # 200
       \/ ~(IsPredictRequest \/ IsBatchRequest)
    THEN {}
    ELSE IF IsPredictRequest
    THEN { [text |-> request.data.text.chars, result |-> response.body] }
    ELSE { [text |-> BatchTexts[k].chars, result |-> response.body.results[k]] :
             k \in { i \in DOMAIN BatchTexts :
                        HasKey(response.body.results[i], "sentiment") } }

\* C10: predict_sentiment gives 'positive' exactly when the classifier's
\* predicted class is 1 and 'negative' for every other class, never
\* 'neutral', with the largest entry of the probability vector as confidence.
C10_ModelSentiment ==
    \A p \in Predictions :
        LET o == classifier[p.text] IN
        /\ (p.result.sentiment = "positive") <=> (o.prediction = 1)
        /\ (p.result.sentiment = "negative") <=> (o.prediction # 1)
        /\ p.result.sentiment # "neutral"
        /\ \E i \in DOMAIN o.proba : p.result.confidence = o.proba[i]
        /\ \A i \in DOMAIN o.proba : p.result.confidence >= o.proba[i]

\* a text whose predicted class is neither 0 nor 1 is scored
C10_Witness ==
    \E p \in Predictions :
        /\ classifier[p.text].prediction = 2
        /\ p.result.sentiment = "negative"
        /\ p.result.confidence = 40

\* a model server answers a predict or batch request
ModelRequestHandled ==
    /\ program \in ModelPrograms
    /\ IsPredictRequest \/ IsBatchRequest

\* the response is the model-not-loaded error of flask_api or of fastapi_api
ModelNotLoaded ==
    /\ response.status = 500
    /\ \/ HasKey(response.body, "error") /\ response.body.error = "Model not loaded"
       \/ HasKey(response.body, "detail") /\ response.body.detail = "Model not loaded"

\* the body of the request passes the request model of the endpoint
\* (flask_api has no request model)
BodyValidates ==
    \/ program = "flask_api"
    \/ IsPredictRequest /\ TextRequest(request.data)
    \/ IsBatchRequest /\ BatchTextRequest(request.data)

\* C11 as stated: in flask_api and fastapi_api, while no bundle is loaded,
\* every predict and batch_predict request, whatever its body, is answered
\* with the model-not-loaded error and no pipeline step is run.
C11_EveryBodyModelNotLoaded ==
    (ModelRequestHandled /\ ~BundleLoaded)
        => /\ ModelNotLoaded
           /\ calls = <<>>

\* C11, amended: while no bundle is loaded, no predict or batch_predict
\* request runs a pipeline step; flask_api answers every body, and
\* fastapi_api every body that passes the request model, with the
\* model-not-loaded error, and fastapi_api answers a body that fails the
\* request model with the validation error 422.
C11_ModelNotLoadedBeforePipeline ==
    (ModelRequestHandled /\ ~BundleLoaded)
        => /\ calls = <<>>
           /\ BodyValidates => ModelNotLoaded
           /\ ~BodyValidates => (response.status = 422)

\* flask_api, served without its bundle, refuses a well-formed predict request
C11_Witness ==
    /\ program = "flask_api"
    /\ ~BundleLoaded
    /\ IsPredictRequest
    /\ request.data = [text |-> JStr(GreatFilm)]
    /\ ModelNotLoaded
    /\ calls = <<>>

\* none of the four components is loaded
NothingLoaded ==
    /\ model = None
    /\ vectorizer = None
    /\ preprocessing_functions = None
    /\ metadata = None

TextSent ==
    /\ IsPredictRequest
    /\ ScorerAvailable
    /\ HasKey(request.data, "text")
    /\ IsStr(request.data.text)

\* what the batch endpoint of the same server answers, in the same state, to
\* the one-item list made of the text of the predict request
AsBatch == batch_route([texts |-> JList(<<request.data.text>>)])

\* the batch response carries a scored entry for its one item
BatchEntryScored(b) ==
    /\ b.status = 200
    /\ Len(b.body.results) = 1
    /\ HasKey(b.body.results[1], "sentiment")

\* C13: within each server the single-text endpoint and the batch endpoint
\* treat the same text the same way: the text is scored by both or by
\* neither, the scorer is called on the same text, and a scored text gets
\* the same sentiment, confidence and counts from both.
C13_SingleEqualsBatch ==
    TextSent =>
        LET b == AsBatch IN
        /\ (response.status = 200) <=> BatchEntryScored(b)
        /\ calls = b.calls
        /\ (response.status = 200 /\ BatchEntryScored(b))
              => /\ response.body.sentiment = b.body.results[1].sentiment
                 /\ response.body.confidence = b.body.results[1].confidence
                 /\ (program \in SimplePrograms)
                       => (response.body.details = b.body.results[1].details)

\* the calls of the scoring function, made for the request being answered,
\* on the text of the recorded earlier call
Repeats == { j \in DOMAIN calls : earlier.recorded /\ calls[j] = earlier.text }

\* what a call returned, without the timestamp field
Timeless(r) ==
    [raised |-> r.raised,
     value |-> [k \in DOMAIN r.value \ {"timestamp"} |-> r.value[k]]]

\* C14: scoring is deterministic: two calls of the scoring function
\* (simple_sentiment_analysis, or predict_sentiment with the bundle
\* unchanged) on the same text return identical results, whatever was
\* served in between.
C14_SameTextSameResult ==
    \A j \in Repeats : returned[j] = earlier.result

\* apart from the timestamp field that predict_sentiment of fastapi_api puts
\* in its result, two calls on the same text do return the same result
SameResultApartFromTimestamp ==
    \A j \in Repeats :
        IF program = "fastapi_api"
        THEN Timeless(returned[j]) = Timeless(earlier.result)
        ELSE returned[j] = earlier.result

\* the text of the predict request is longer than max_length
TooLong ==
    /\ IsPredictRequest
    /\ HasKey(request.data, "text")
    /\ IsStr(request.data.text)
    /\ Len(request.data.text.chars) > max_length

\* the list of the batch request has more than max_items items
TooMany ==
    /\ IsBatchRequest
    /\ HasKey(request.data, "texts")
    /\ IsList(request.data.texts)
    /\ Len(request.data.texts.items) > max_items

\* C15: in every server a single text longer than 10000 characters and a
\* batch of more than 100 items are rejected with a client error before
\* any scoring: the scorer is called neither on the text nor on any item.
C15_OversizeRejected ==
    (TooLong \/ TooMany)
        => /\ response.status \in 400..499
           /\ calls = <<>>

\* what simple_sentiment_analysis of the other lexicon server returns on the
\* text that was scored
OtherLexiconServer ==
    IF program = "simple_flask_api"
    THEN simple_sentiment_analysis_fastapi(request.data.text.chars)
    ELSE simple_sentiment_analysis_flask(request.data.text.chars)

\* C16: the two lexicon servers are the same scorer: on every text
\* simple_sentiment_analysis of simple_flask_api and of simple_fastapi_api
\* return the same sentiment, the same confidence and the same positive
\* and negative counts.
C16_SameLexiconScorer ==
    ScoreDone =>
        LET r == response.body
            o == OtherLexiconServer
        IN  /\ r.sentiment = o.sentiment
            /\ r.confidence = o.confidence
            /\ r.positive_words_found = o.positive_words_found
            /\ r.negative_words_found = o.negative_words_found

\* the handler passes item k of the batch to predict_sentiment
ItemScored(k) ==
    /\ IsStr(BatchTexts[k])
    /\ (program = "flask_api") => Truthy(BatchTexts[k])

\* C17: in flask_api and fastapi_api, when preprocessing, vectorization or
\* prediction raises for a text, a single predict request ends in a 500
\* response with an error body, and in batch_predict the failure is an
\* error entry for that one item: the request is answered 200 with one
\* entry per item, and every scored item the pipeline does not raise on
\* has its prediction.
C17_PipelineFailureHandled ==
    /\ (/\ program \in ModelPrograms
        /\ BundleLoaded
        /\ IsPredictRequest
        /\ calls # <<>>
        /\ classifier[calls[1]].raises)
          => /\ response.status = 500
             /\ HasKey(response.body, "error") \/ HasKey(response.body, "detail")
             /\ ~HasKey(response.body, "sentiment")
    /\ (program \in ModelPrograms /\ ListGiven)
          => /\ response.status = 200
             /\ Len(response.body.results) = Len(BatchTexts)
             /\ \A k \in DOMAIN BatchTexts :
                   /\ (ItemScored(k) /\ classifier[BatchTexts[k].chars].raises)
                         => /\ HasKey(response.body.results[k], "error")
                            /\ ~HasKey(response.body.results[k], "sentiment")
                            /\ response.body.results[k].index = k - 1
                   /\ (ItemScored(k) /\ ~classifier[BatchTexts[k].chars].raises)
                         => HasKey(response.body.results[k], "sentiment")

\* a batch whose first item makes the pipeline raise and whose second item
\* is predicted
C17_Witness ==
    /\ program \in ModelPrograms
    /\ ListGiven
    /\ Len(BatchTexts) = 2
    /\ ItemScored(1)
    /\ classifier[BatchTexts[1].chars].raises
    /\ response.status = 200
    /\ HasKey(response.body.results[1], "error")
    /\ HasKey(response.body.results[2], "sentiment")

TokenAt(s, i, j) ==
    /\ i <= j
    /\ \A k \in i..j : ~IsSpace(s[k])
    /\ i = 1 \/ IsSpace(s[i - 1])
    /\ j = Len(s) \/ IsSpace(s[j + 1])

\* the number of token positions of s whose token is in the word list
Hits(s, word_list) ==
    Cardinality({ ij \in (DOMAIN s) \X (DOMAIN s) :
                    TokenAt(s, ij[1], ij[2]) /\ SubSeq(s, ij[1], ij[2]) \in word_list })

\* C19: in simple_sentiment_analysis positive_count (negative_count) is the
\* number of positions of the token sequence whose token is in the positive
\* (negative) word list, the tokens being the maximal runs of non-whitespace
\* of the text lower-cased and stripped of every character that is neither
\* a word character nor whitespace; a word that occurs twice counts twice,
\* and 'Great!' is a hit for 'great'.
C19_CountsAreTokenHits ==
    ScoreDone =>
        LET r == response.body
            text == request.data.text.chars
            normal == re_sub(lower(text))
        IN  /\ r.positive_words_found
                  = Hits(normal, IF program = "simple_flask_api"
                                 THEN positive_words_flask ELSE positive_words_fastapi)
            /\ r.negative_words_found
                  = Hits(normal, IF program = "simple_flask_api"
                                 THEN negative_words_flask ELSE negative_words_fastapi)
            /\ (text = <<"G","r","e","a","t","!">>) => (r.positive_words_found = 1)
            /\ (text = <<"g","o","o","d"," ","g","o","o","d"," ">>)
                  => (r.positive_words_found = 2)

\* 'Great!' is scored: one hit, whatever the case and the punctuation
C19_Witness ==
    /\ ScoreDone
    /\ request.data.text.chars = <<"G","r","e","a","t","!">>
    /\ response.body.positive_words_found = 1
    /\ response.body.negative_words_found = 0

\* the number of entries of results with the sentiment
EntriesWith(results, sentiment) ==
    Cardinality({ k \in DOMAIN results : results[k].sentiment = sentiment })

\* a lexicon server answers a batch request with results and a summary
SummaryGiven ==
    /\ program \in SimplePrograms
    /\ IsBatchRequest
    /\ response.status = 200

\* C20: in predict_batch of simple_flask_api and simple_fastapi_api the
\* summary's positive_count, negative_count and neutral_count each equal
\* the number of entries of results with that sentiment, their sum is
\* total_texts, total_texts is len(results), and an item that was skipped
\* is counted in none of them: the entries are the non-blank strings.
C20_SummaryCounts ==
    SummaryGiven =>
        LET results == response.body.results
            summary == response.body.summary
        IN  /\ summary.positive_count = EntriesWith(results, "positive")
            /\ summary.negative_count = EntriesWith(results, "negative")
            /\ summary.neutral_count = EntriesWith(results, "neutral")
            /\ summary.positive_count + summary.negative_count + summary.neutral_count
                  = summary.total_texts
            /\ summary.total_texts = Len(results)
            /\ Len(results)
                  = Cardinality({ k \in DOMAIN BatchTexts :
                                    IsStr(BatchTexts[k]) /\ ~IsBlank(BatchTexts[k]) })

\* a batch of a positive text, a blank one and a neutral one
C20_Witness ==
    /\ SummaryGiven
    /\ Len(BatchTexts) = 3
    /\ IsBlank(BatchTexts[2])
    /\ response.body.summary.total_texts = 2
    /\ response.body.summary.positive_count = 1
    /\ response.body.summary.neutral_count = 1
====
